---- MODULE Spec2Model ----
(***************************************************************************)
(* Model of alocare.py: the three-round allocation of project domains to   *)
(* student teams.  Strings are sequences of one-character strings, so that *)
(* splitting, space removal, prefix tests and sorting are computed and not *)
(* assumed.  speed_test.py calls main() several times on the same input    *)
(* file; the model runs the pipeline MaxRuns times for that reason.        *)
(***************************************************************************)
EXTENDS Integers, Sequences, FiniteSets, TLC

VARIABLES input, readable, df, pc, run, stats, rng, mt, outputs, stderr

vars == <<input, readable, df, pc, run, stats, rng, mt, outputs, stderr>>

\* ------------------------------------------------------------------ bounds
NumTeams == 3
MaxRuns == 2

\* --------------------------------------------------------------- constants
SEED == 19032025

E == <<>>

NaN == <<"n", "a", "n">>

MANUAL == <<"D", "e", " ", "a", "l", "o", "c", "a", "t", " ", "m", "a", "n", "u", "a", "l">>

\* ----------------------------------------------------------------- strings
Ord(c) ==
    CASE c = " " -> 32 [] c = "," -> 44 [] c = "-" -> 45
      [] c = "1" -> 49 [] c = "2" -> 50 [] c = "3" -> 51
      [] c = "X" -> 88 [] c = "Y" -> 89
      [] c = "a" -> 97 [] c = "b" -> 98 [] c = "p" -> 112 [] c = "q" -> 113
      [] c = "r" -> 114 [] c = "w" -> 119 [] c = "x" -> 120 [] c = "y" -> 121
      [] c = "z" -> 122
      [] OTHER -> 0

RECURSIVE StrLess(_, _)
StrLess(s, t) ==
    IF t = E THEN FALSE
    ELSE IF s = E THEN TRUE
    ELSE IF Ord(Head(s)) # Ord(Head(t)) THEN Ord(Head(s)) < Ord(Head(t))
    ELSE StrLess(Tail(s), Tail(t))

KeyLess(k, l) == StrLess(k[1], l[1]) \/ (k[1] = l[1] /\ StrLess(k[2], l[2]))

Replace(s) == SelectSeq(s, LAMBDA c : c # " ")

RECURSIVE Find(_, _, _)
Find(s, sep, i) ==
    IF i > Len(s) THEN 0
    ELSE IF s[i] = sep THEN i
    ELSE Find(s, sep, i + 1)

RECURSIVE Split(_, _)
Split(s, sep) ==
    LET i == Find(s, sep, 1)
    IN  IF i = 0 THEN <<s>>
        ELSE <<SubSeq(s, 1, i - 1)>> \o Split(SubSeq(s, i + 1, Len(s)), sep)

SplitFirst(s, sep) ==
    LET i == Find(s, sep, 1)
    IN  IF i = 0 THEN s ELSE SubSeq(s, 1, i - 1)

StartsWith(s, p) == Len(p) <= Len(s) /\ SubSeq(s, 1, Len(p)) = p

Digits == <<"1", "2", "3", "4", "5", "6", "7", "8", "9">>

Str(n) == <<Digits[n]>>

Column(n) == IF n = 1 THEN "d1" ELSE IF n = 2 THEN "d2" ELSE "d3"

SetMax(S) == IF S = {} THEN 0 ELSE CHOOSE x \in S : \A y \in S : y <= x

\* ------------------------------------------------------------------ inputs
\* Team names: two groups, and a name whose first segment is empty.
TeamX == <<"X", "1", "-", "p">>

TeamY == <<"Y", "-", "q">>

TeamNoGroup == <<"-", "r">>

\* Option strings: [A, A, B] with a space after a comma; a domain "ab" ahead
\* of the domain "a"; an empty first item; only A; a single item with a space
\* in its description.
OptAAB == <<"a", "-", "x", ",", " ", "a", "-", "y", ",", "b", "-", "z">>

OptPrefix == <<"a", "b", "-", "y", ",", "a", "-", "x", ",", "b", "-", "z">>

OptEmptyFirst == <<",", "a", "-", "x", ",", "b", "-", "y">>

OptOnlyA == <<"a", "-", "x", ",", "a", "-", "y", ",", "a", "-", "z">>

OptOnlyB == <<"b", "-", "y", " ", "z">>

OptionStrings == {OptAAB, OptPrefix, OptEmptyFirst, OptOnlyA, OptOnlyB}

InputRows ==
    [Echipa : {TeamX}, Optiuni : OptionStrings]
        \cup [Echipa : {TeamY}, Optiuni : {OptPrefix, OptOnlyB}]
        \cup [Echipa : {TeamNoGroup}, Optiuni : {OptPrefix}]

\* ------------------------------------------------------------ preprocessing
Items(optiuni) == Split(Replace(optiuni), ",")

NumColumns(table) == SetMax({Len(Items(table[i].Optiuni)) : i \in DOMAIN table})

Col(items, k) == IF k + 1 <= Len(items) THEN items[k + 1] ELSE E

Grupa(echipa) ==
    LET seg == SplitFirst(echipa, "-")
    IN  IF seg = E THEN NaN ELSE <<seg[1]>>

Dedup(d1, d2, d3) ==
    LET mask_d3_dup == d3 = d1 \/ d3 = d2 \/ d3 = E
        d3a == IF mask_d3_dup THEN E ELSE d3
        mask_d2_dup == d2 = d1 \/ d2 = E
    IN  [d1 |-> d1,
         d2 |-> IF mask_d2_dup THEN d3a ELSE d2,
         d3 |-> IF mask_d2_dup THEN E ELSE d3a]

PreprocessRow(row) ==
    LET items == Items(row.Optiuni)
        d == Dedup(SplitFirst(Col(items, 0), "-"),
                   SplitFirst(Col(items, 1), "-"),
                   SplitFirst(Col(items, 2), "-"))
    IN  [Echipa |-> row.Echipa, Optiuni |-> row.Optiuni,
         grupa |-> Grupa(row.Echipa),
         d1 |-> d.d1, d2 |-> d.d2, d3 |-> d.d3,
         domenii |-> items,
         alocare |-> E, runda |-> E, tema_proiect |-> E]

preprocess_dataframe(table) == [i \in DOMAIN table |-> PreprocessRow(table[i])]

\* ---------------------------------------------------------------- allocation
Allocated(t) == {i \in DOMAIN t : t[i].alocare # E}


\* AllocatedDict built from the rows that are not allocated (mask inverted).
AllocatedDictInverted(t) ==
    [g \in {t[i].grupa : i \in {j \in DOMAIN t \ Allocated(t) : t[j].grupa # NaN}} |->
        {t[i].alocare : i \in {j \in DOMAIN t \ Allocated(t) : t[j].grupa = g}}]

AllocatedDict(t) ==
    [g \in {t[i].grupa : i \in {j \in Allocated(t) : t[j].grupa # NaN}} |->
        {t[i].alocare : i \in {j \in Allocated(t) : t[j].grupa = g}}]


\* Candidates without the test that the round's column is non-empty.
CandidatesAnyDomain(t, col) == {i \in DOMAIN t : t[i].alocare = E}

\* Candidates without the test that the team is still unallocated.
CandidatesAnyAllocation(t, col) == {i \in DOMAIN t : t[i][col] # E}

Candidates(t, col) == {i \in DOMAIN t : t[i].alocare = E /\ t[i][col] # E}

GroupKeys(t, col) ==
    {<<t[i].grupa, t[i][col]>> : i \in {j \in Candidates(t, col) : t[j].grupa # NaN}}

RECURSIVE SortKeys(_)
SortKeys(K) ==
    IF K = {} THEN <<>>
    ELSE LET k == CHOOSE x \in K : \A y \in K \ {x} : KeyLess(x, y)
         IN  <<k>> \o SortKeys(K \ {k})

RECURSIVE SortIdx(_)
SortIdx(S) ==
    IF S = {} THEN <<>>
    ELSE LET m == CHOOSE x \in S : \A y \in S : x <= y
         IN  <<m>> \o SortIdx(S \ {m})


\* GroupIndex of a partition formed by the domain alone.
GroupIndexAnyGroup(t, col, key) ==
    SortIdx({i \in Candidates(t, col) : t[i][col] = key[2]})

GroupIndex(t, col, key) ==
    SortIdx({i \in Candidates(t, col) : t[i].grupa = key[1] /\ t[i][col] = key[2]})

IsClaimed(dict, group, domain) == group \in DOMAIN dict /\ domain \in dict[group]


\* NeedsDraw without the single-team fast path.
NeedsDrawAlways(team_count) == TRUE

NeedsDraw(team_count) == team_count # 1


\* No generator has been created yet.
NoRng == [seed |-> 0, calls |-> <<>>]

\* RandomState that keeps drawing from the generator last used.
RandomStateShared(seed) == rng

RandomState(seed) == [seed |-> seed, calls |-> <<>>]

\* The scan of lines 70-87 over the sorted (grupa, domain) keys.  draws[k] is
\* the value returned by the k-th call of rng.randint in this round.
RECURSIVE Scan(_, _, _, _, _)
Scan(t, col, keys, acc, draws) ==
    IF keys = <<>> THEN acc
    ELSE
        LET group == Head(keys)[1]
            domain == Head(keys)[2]
            index == GroupIndex(t, col, Head(keys))
            team_count == Len(index)
        IN  IF IsClaimed(acc.allocated_dict, group, domain)
            THEN Scan(t, col, Tail(keys), acc, draws)
            ELSE
                LET calls == IF NeedsDraw(team_count)
                             THEN Append(acc.rng.calls, team_count)
                             ELSE acc.rng.calls
                    random_idx == IF NeedsDraw(team_count) THEN draws[Len(calls)] ELSE 0
                    idx == index[random_idx + 1]
                    old == IF group \in DOMAIN acc.allocated_dict
                           THEN acc.allocated_dict[group] ELSE {}
                IN  Scan(t, col, Tail(keys),
                         [allocated_dict |-> (group :> (old \cup {domain})) @@ acc.allocated_dict,
                          rng |-> [seed |-> acc.rng.seed, calls |-> calls],
                          team_indices |-> Append(acc.team_indices, idx),
                          allocated_domains |-> Append(acc.allocated_domains, domain)],
                         draws)

ScanResult(t, round_num, draws) ==
    Scan(t, Column(round_num), SortKeys(GroupKeys(t, Column(round_num))),
         [allocated_dict |-> AllocatedDict(t),
          rng |-> RandomState(SEED + round_num),
          team_indices |-> <<>>,
          allocated_domains |-> <<>>],
         draws)

\* Assign that writes the round through the candidate mask instead of through
\* team_indices.
AssignRoundByMask(t, res, round_num) ==
    [i \in DOMAIN t |->
        IF \E k \in DOMAIN res.team_indices : res.team_indices[k] = i
        THEN LET k == CHOOSE k \in DOMAIN res.team_indices : res.team_indices[k] = i
             IN  [t[i] EXCEPT !.alocare = res.allocated_domains[k],
                              !.runda = Str(round_num)]
        ELSE IF i \in Candidates(t, Column(round_num))
        THEN [t[i] EXCEPT !.runda = Str(round_num)]
        ELSE t[i]]

Assign(t, res, round_num) ==
    [i \in DOMAIN t |->
        IF \E k \in DOMAIN res.team_indices : res.team_indices[k] = i
        THEN LET k == CHOOSE k \in DOMAIN res.team_indices : res.team_indices[k] = i
             IN  [t[i] EXCEPT !.alocare = res.allocated_domains[k],
                              !.runda = Str(round_num)]
        ELSE t[i]]

\* randint called with 1 as its lower bound.
randintFromOne(low, high) == (low + 1) .. (high - 1)

randint(low, high) == low .. (high - 1)

\* The generator state this round ends with when every draw returns 0: its
\* calls are the sizes passed to rng.randint, which no draw value changes.
EndRng(t, round_num) ==
    ScanResult(t, round_num,
               [k \in 1 .. (Len(RandomState(SEED + round_num).calls) + Len(t)) |-> 0]).rng

MtKey(seed, calls, k) == <<seed, SubSeq(calls, 1, k)>>

\* ------------------------------------------------------- preference updates

\* UpdateRow2 that never promotes d3 when d2 is claimed.
UpdateRow2NoPromote(row, dict) ==
    IF row.grupa \notin DOMAIN dict THEN row
    ELSE IF row.d2 \in dict[row.grupa]
    THEN [row EXCEPT !.d2 = E, !.d3 = E]
    ELSE row

\* UpdateRow2 that promotes d3 without testing that it is unclaimed.
UpdateRow2PromoteUnchecked(row, dict) ==
    IF row.grupa \notin DOMAIN dict THEN row
    ELSE IF row.d2 \in dict[row.grupa]
    THEN IF row.d3 # E
         THEN [row EXCEPT !.d2 = row.d3, !.d3 = E]
         ELSE [row EXCEPT !.d2 = E, !.d3 = E]
    ELSE row

UpdateRow2(row, dict) ==
    IF row.grupa \notin DOMAIN dict THEN row
    ELSE IF row.d2 \in dict[row.grupa]
    THEN IF row.d3 # E /\ row.d3 \notin dict[row.grupa]
         THEN [row EXCEPT !.d2 = row.d3, !.d3 = E]
         ELSE [row EXCEPT !.d2 = E, !.d3 = E]
    ELSE row


\* UpdateRow3 that tests d3 against the domains of every group.
UpdateRow3AnyGroup(row, dict) ==
    IF \E g \in DOMAIN dict : row.d3 \in dict[g]
    THEN [row EXCEPT !.d3 = E]
    ELSE row

\* UpdateRow3 that clears d2 together with a claimed d3.
UpdateRow3ClearsBoth(row, dict) ==
    IF row.grupa \in DOMAIN dict /\ row.d3 \in dict[row.grupa]
    THEN [row EXCEPT !.d2 = E, !.d3 = E]
    ELSE row

UpdateRow3(row, dict) ==
    IF row.grupa \in DOMAIN dict /\ row.d3 \in dict[row.grupa]
    THEN [row EXCEPT !.d3 = E]
    ELSE row

\* update_preferences that leaves every preference as it is.
update_preferencesKeepsAll(t, round_num) == t

update_preferences(t, round_num) ==
    IF Allocated(t) = {} THEN t
    ELSE IF round_num = 2
    THEN [i \in DOMAIN t |-> UpdateRow2(t[i], AllocatedDict(t))]
    ELSE IF round_num = 3
    THEN [i \in DOMAIN t |-> UpdateRow3(t[i], AllocatedDict(t))]
    ELSE t

\* ------------------------------------------------------------------- themes
Matches(tema, alocare) == tema # E /\ StartsWith(tema, alocare)

RECURSIVE FirstMatch(_, _)
FirstMatch(domenii, alocare) ==
    IF domenii = <<>> THEN MANUAL
    ELSE IF Matches(Head(domenii), alocare) THEN Head(domenii)
    ELSE FirstMatch(Tail(domenii), alocare)

Theme(row) == IF row.alocare = E THEN MANUAL ELSE FirstMatch(row.domenii, row.alocare)

assign_themes(t) == [i \in DOMAIN t |-> [t[i] EXCEPT !.tema_proiect = Theme(t[i])]]

\* ------------------------------------------------------------------ actions
RoundStage(r) == IF r = 1 THEN "round1" ELSE IF r = 2 THEN "round2" ELSE "round3"

AfterRound(r) == IF r = 1 THEN "update2" ELSE IF r = 2 THEN "update3" ELSE "themes"

StatKey(r) == IF r = 1 THEN "round1" ELSE IF r = 2 THEN "round2" ELSE "round3"

Init ==
    /\ input \in [1 .. NumTeams -> InputRows]
    /\ df = <<>>
    /\ pc = "start"
    /\ run = 1
    /\ stats = [round1 |-> 0, round2 |-> 0, round3 |-> 0]
    /\ rng = NoRng
    /\ mt = <<>>
    /\ outputs = <<>>
    /\ readable \in BOOLEAN
    /\ stderr = <<>>

\* read_csv and preprocess_dataframe; domains_split[1] and domains_split[2]
\* exist only when some row has that many comma-separated items.
Preprocess ==
    /\ pc = "start"
    /\ readable
    /\ NumColumns(input) >= 3
    /\ df' = preprocess_dataframe(input)
    /\ stats' = [round1 |-> 0, round2 |-> 0, round3 |-> 0]
    /\ pc' = "round1"
    /\ UNCHANGED <<input, run, rng, mt, outputs, readable, stderr>>

\* PreprocessFail with the table written all the same (to_csv in a finally).
PreprocessFailWrites ==
    /\ pc = "start"
    /\ readable
    /\ NumColumns(input) < 3
    /\ pc' = "failed"
    /\ stderr' = Append(stderr, "KeyError")
    /\ outputs' = Append(outputs, df)
    /\ UNCHANGED <<input, readable, df, run, stats, rng, mt>>

\* The KeyError of domains_split[1] or domains_split[2], caught at line 218.
PreprocessFail ==
    /\ pc = "start"
    /\ readable
    /\ NumColumns(input) < 3
    /\ pc' = "failed"
    /\ stderr' = Append(stderr, "KeyError")
    /\ UNCHANGED <<input, readable, df, run, stats, rng, mt, outputs>>

\* read_csv raises because the input file cannot be read; caught at line 218.
ReadFail ==
    /\ pc = "start"
    /\ ~readable
    /\ pc' = "failed"
    /\ stderr' = Append(stderr, "FileNotFoundError")
    /\ UNCHANGED <<input, readable, df, run, stats, rng, mt, outputs>>

AllocateEmpty(r) ==
    /\ pc = RoundStage(r)
    /\ Candidates(df, Column(r)) = {}
    /\ stats' = [stats EXCEPT ![StatKey(r)] = 0]
    /\ pc' = AfterRound(r)
    /\ UNCHANGED <<input, df, run, rng, mt, outputs, readable, stderr>>

AllocateSome(r) ==
    /\ pc = RoundStage(r)
    /\ Candidates(df, Column(r)) # {}
    /\ LET first == Len(RandomState(SEED + r).calls) + 1
           end == EndRng(df, r)
       IN  \E draws \in [first .. Len(end.calls) -> 0 .. (NumTeams - 1)] :
             /\ \A k \in first .. Len(end.calls) :
                   /\ draws[k] \in randint(0, end.calls[k])
                   /\ MtKey(end.seed, end.calls, k) \in DOMAIN mt
                        => draws[k] = mt[MtKey(end.seed, end.calls, k)]
             /\ LET res == ScanResult(df, r, draws)
                IN  /\ df' = Assign(df, res, r)
                    /\ stats' = [stats EXCEPT ![StatKey(r)] = Len(res.team_indices)]
                    /\ rng' = res.rng
                    /\ mt' = [key \in DOMAIN mt \cup
                                      {MtKey(end.seed, end.calls, k) :
                                          k \in first .. Len(end.calls)} |->
                                 IF key \in DOMAIN mt THEN mt[key]
                                 ELSE draws[Len(key[2])]]
    /\ pc' = AfterRound(r)
    /\ UNCHANGED <<input, run, outputs, readable, stderr>>

allocate_round(r) == AllocateEmpty(r) \/ AllocateSome(r)

UpdatePreferences(r) ==
    /\ pc = (IF r = 2 THEN "update2" ELSE "update3")
    /\ df' = update_preferences(df, r)
    /\ pc' = RoundStage(r)
    /\ UNCHANGED <<input, run, stats, rng, mt, outputs, readable, stderr>>

AssignThemes ==
    /\ pc = "themes"
    /\ df' = assign_themes(df)
    /\ pc' = "write"
    /\ UNCHANGED <<input, run, stats, rng, mt, outputs, readable, stderr>>

WriteOutput ==
    /\ pc = "write"
    /\ outputs' = Append(outputs, df)
    /\ pc' = "done"
    /\ UNCHANGED <<input, df, run, stats, rng, mt, readable, stderr>>

\* speed_test.py: main() is called again in the same process.
Rerun ==
    /\ pc \in {"done", "failed"}
    /\ run < MaxRuns
    /\ run' = run + 1
    /\ pc' = "start"
    /\ df' = <<>>
    /\ UNCHANGED <<input, stats, rng, mt, outputs, readable, stderr>>

Next ==
    \/ Preprocess
    \/ PreprocessFail
    \/ ReadFail
    \/ \E r \in 1 .. 3 : allocate_round(r)
    \/ \E r \in 2 .. 3 : UpdatePreferences(r)
    \/ AssignThemes
    \/ WriteOutput
    \/ Rerun

Spec == Init /\ [][Next]_vars

\* ------------------------------------------------------------------ helpers
A == <<"a">>

B == <<"b">>

\* Some team of group g holds domain d in table t.
Holds(t, g, d) == \E j \in DOMAIN t : t[j].grupa = g /\ t[j].alocare = d /\ d # E

\* The deduplicated preferences of row i as the preprocessor produced them.
Prefs(i) == PreprocessRow(input[i])

RoundStep(r) == pc = RoundStage(r) /\ pc' = AfterRound(r)

AfterARound == pc \in {"update2", "update3", "themes"}

\* ---------------------------------------------------------------------- C1
\* C1: after every call of allocate_round, no two distinct teams of the same
\* group hold the same non-empty allocated domain.
C1_NoDuplicateDomainInGroup ==
    \A i, j \in DOMAIN df :
        (i # j /\ df[i].grupa = df[j].grupa /\ df[i].alocare # E)
            => df[i].alocare # df[j].alocare

\* Two teams of one group that both asked for the same first domain are both
\* allocated after round 3.
C1_Witness ==
    /\ pc = "themes"
    /\ \E i, j \in DOMAIN df :
          /\ i # j /\ df[i].grupa = df[j].grupa /\ Prefs(i).d1 = Prefs(j).d1
          /\ df[i].alocare # E /\ df[j].alocare # E

\* ---------------------------------------------------------------------- C2
\* C2: once a team has a non-empty allocated domain, no later step of the same
\* run changes its allocated domain or its round_allocated value.
C2_AllocationIsFinal ==
    [][\A i \in DOMAIN df :
          (df[i].alocare # E /\ run' = run)
              => (df'[i].alocare = df[i].alocare /\ df'[i].runda = df[i].runda)]_vars

\* One team was allocated in round 1 and another in round 3.
C2_Witness ==
    /\ pc = "done"
    /\ \E i, j \in DOMAIN df : df[i].runda = Str(1) /\ df[j].runda = Str(3)

\* ---------------------------------------------------------------------- C3
RECURSIVE FirstWithDomain(_, _)
FirstWithDomain(domenii, alocare) ==
    IF domenii = <<>> THEN MANUAL
    ELSE IF SplitFirst(Head(domenii), "-") = alocare THEN Head(domenii)
    ELSE FirstWithDomain(Tail(domenii), alocare)

\* C3: for every team with an allocated domain, assign_themes sets the theme to
\* the first entry of the preference-string list whose domain prefix (the text
\* before its first hyphen) equals the allocated domain.
C3_ThemeIsFirstEntryOfDomain ==
    pc \in {"write", "done"} =>
        \A i \in DOMAIN df :
            df[i].alocare # E
                => df[i].tema_proiect = FirstWithDomain(df[i].domenii, df[i].alocare)

\* ---------------------------------------------------------------------- C4
LeftPacked(row) == (row.d1 = E => row.d2 = E) /\ (row.d2 = E => row.d3 = E)

DistinctPrefs(row) ==
    /\ row.d1 # E => (row.d1 # row.d2 /\ row.d1 # row.d3)
    /\ row.d2 # E => row.d2 # row.d3

\* The domain tokens of the first three items, as written.
Tokens(optiuni) ==
    [k \in 1 .. 3 |-> SplitFirst(Col(Items(optiuni), k - 1), "-")]

\* s keeps the order of t: s is a subsequence of t.
RECURSIVE IsSubSeq(_, _)
IsSubSeq(s, t) ==
    IF s = <<>> THEN TRUE
    ELSE IF t = <<>> THEN FALSE
    ELSE IF Head(s) = Head(t) THEN IsSubSeq(Tail(s), Tail(t))
    ELSE IsSubSeq(s, Tail(t))

InOriginalOrder(row) ==
    IsSubSeq(SelectSeq(<<row.d1, row.d2, row.d3>>, LAMBDA d : d # E),
             Tokens(row.Optiuni))

\* C4: for every raw preference string, preprocess_dataframe yields d1, d2, d3
\* that are left-packed, pairwise distinct among the non-empty slots and in the
\* original order; preferences [A, A, B] yield [A, B].
C4_DedupLeftPackedDistinctOrdered ==
    pc = "round1" =>
        \A i \in DOMAIN df :
            /\ LeftPacked(df[i])
            /\ DistinctPrefs(df[i])
            /\ InOriginalOrder(df[i])
            /\ Tokens(df[i].Optiuni) = <<A, A, B>>
                  => <<df[i].d1, df[i].d2, df[i].d3>> = <<A, B, E>>

\* ---------------------------------------------------------------------- C5
\* C5: when round-2 allocation starts no team's d2 is held by its own group,
\* and when round-3 allocation starts no team's d3 is held by its own group.
C5_NeverOfferedAClaimedDomain ==
    /\ pc = "round2" => \A i \in DOMAIN df : ~Holds(df, df[i].grupa, df[i].d2)
    /\ pc = "round3" => \A i \in DOMAIN df : ~Holds(df, df[i].grupa, df[i].d3)

\* Round 2 starts and some team's second preference, held by its group after
\* round 1, has been rewritten.
C5_Witness ==
    /\ pc = "round2"
    /\ \E i \in DOMAIN df :
          /\ Holds(df, df[i].grupa, Prefs(i).d2)
          /\ df[i].d2 # Prefs(i).d2

\* ---------------------------------------------------------------------- C6
\* The candidates of round column col that form the partition of team i.
PartitionOf(t, col, i) ==
    {j \in DOMAIN t : t[j].alocare = E /\ t[j].grupa = t[i].grupa /\ t[j][col] = t[i][col]}

OnePerPartition(r) ==
    \A i \in DOMAIN df :
        (/\ df[i].alocare = E
         /\ df[i][Column(r)] # E
         /\ df[i].grupa # NaN
         /\ ~Holds(df, df[i].grupa, df[i][Column(r)]))
        => /\ Cardinality({j \in PartitionOf(df, Column(r), i) :
                              /\ df'[j].alocare = df[i][Column(r)]
                              /\ df'[j].runda = Str(r)}) = 1
           /\ \A j \in PartitionOf(df, Column(r), i) :
                 df'[j].alocare \in {E, df[i][Column(r)]}

\* Group g consists of exactly T1, T2 asking only for A and T3 asking only for B.
ScenarioTeams(t1, t2, t3) ==
    /\ t1 # t2 /\ t1 # t3 /\ t2 # t3
    /\ df[t1].grupa # NaN
    /\ {k \in DOMAIN df : df[k].grupa = df[t1].grupa} = {t1, t2, t3}
    /\ <<Prefs(t1).d1, Prefs(t1).d2, Prefs(t1).d3>> = <<A, E, E>>
    /\ <<Prefs(t2).d1, Prefs(t2).d2, Prefs(t2).d3>> = <<A, E, E>>
    /\ <<Prefs(t3).d1, Prefs(t3).d2, Prefs(t3).d3>> = <<B, E, E>>

ScenarioOutcome(t1, t2, t3) ==
    /\ df[t3].alocare = B /\ df[t3].runda = Str(1)
    /\ \/ df[t1].alocare = A /\ df[t2].alocare = E /\ df[t2].tema_proiect = MANUAL
       \/ df[t2].alocare = A /\ df[t1].alocare = E /\ df[t1].tema_proiect = MANUAL

RawItems(optiuni) == Split(optiuni, ",")

\* C7: when the pipeline completes, the output has exactly one row per input
\* team and every row's theme is set: one of the team's original preference
\* strings or the manual-assignment marker, never empty.
C7_OneRowPerTeamThemeSet ==
    pc = "done" =>
        LET out == outputs[Len(outputs)]
        IN  /\ Len(out) = Len(input)
            /\ \A i \in DOMAIN out :
                  /\ out[i].Echipa = input[i].Echipa
                  /\ out[i].Optiuni = input[i].Optiuni
                  /\ out[i].tema_proiect # E
                  /\ \/ out[i].tema_proiect = MANUAL
                     \/ \E k \in DOMAIN RawItems(input[i].Optiuni) :
                           RawItems(input[i].Optiuni)[k] = out[i].tema_proiect

\* ---------------------------------------------------------------------- C8
\* C8: runs of the pipeline on the same input with the same seed write the
\* same table, and a round that allocates draws from a generator seeded with
\* SEED + round number whose calls are those of that round alone.
C8_Deterministic ==
    /\ \A k \in DOMAIN outputs : outputs[k] = outputs[1]
    /\ \A r \in 1 .. 3 :
          (pc = AfterRound(r) /\ stats[StatKey(r)] > 0)
              => /\ rng.seed = SEED + r
                 /\ Len(rng.calls) <= stats[StatKey(r)]

\* Two runs have written their tables and a tie was broken by a draw.
C8_Witness ==
    /\ Len(outputs) = 2
    /\ DOMAIN mt # {}
    /\ \E i \in DOMAIN df : df[i].alocare = E /\ Prefs(i).d1 # E /\ df[i].grupa # NaN

\* ---------------------------------------------------------------------- C9
GroupHasAllocations(i) ==
    \E j \in DOMAIN df : df[j].grupa = df[i].grupa /\ df[j].alocare # E

Rewrite2(i) ==
    IF ~GroupHasAllocations(i) \/ ~Holds(df, df[i].grupa, df[i].d2)
    THEN <<df[i].d2, df[i].d3>>
    ELSE IF df[i].d3 # E /\ ~Holds(df, df[i].grupa, df[i].d3)
    THEN <<df[i].d3, E>>
    ELSE <<E, E>>

Rewrite3(i) ==
    IF GroupHasAllocations(i) /\ Holds(df, df[i].grupa, df[i].d3)
    THEN E
    ELSE df[i].d3

\* C9: update_preferences rewrites each team as specified.  Round 2: d2, d3
\* unchanged when the group has no allocations or d2 is unclaimed; d2 := d3 and
\* d3 := empty when d2 is claimed and d3 is non-empty and unclaimed; both empty
\* otherwise.  Round 3: d3 := empty when the group has allocations and d3 is
\* claimed, unchanged otherwise.
C9_UpdateMatchesRewrite ==
    [][/\ (pc = "update2" /\ pc' = "round2")
            => \A i \in DOMAIN df : <<df'[i].d2, df'[i].d3>> = Rewrite2(i)
       /\ (pc = "update3" /\ pc' = "round3")
            => \A i \in DOMAIN df : df'[i].d3 = Rewrite3(i)]_vars

\* Round 2 starts after update_preferences promoted the third preference of
\* one team into its second and left another team's preferences as they were.
C9_Witness ==
    /\ pc = "round2"
    /\ \E i, j \in DOMAIN df :
          /\ Prefs(i).d3 # E /\ df[i].d2 = Prefs(i).d3 /\ df[i].d3 = E
          /\ Prefs(j).d3 # E /\ df[j].d2 = Prefs(j).d2 /\ df[j].d3 = Prefs(j).d3

\* --------------------------------------------------------------------- C10
\* The candidates of round r that belong to a partition allocate_round scans
\* and does not skip.
Eligible(r) ==
    {i \in DOMAIN df :
        /\ df[i].alocare = E
        /\ df[i][Column(r)] # E
        /\ df[i].grupa # NaN
        /\ ~Holds(df, df[i].grupa, df[i][Column(r)])}

\* C10: a (group, domain) partition of size 1 is always allocated, whatever
\* the draws are, and handling it consumes no draw of the round's generator.
C10_SingletonAlwaysAllocatedNoDraw ==
    [][\A r \in 1 .. 3 : RoundStep(r) =>
          /\ \A i \in Eligible(r) :
                PartitionOf(df, Column(r), i) = {i}
                    => (df'[i].alocare = df[i][Column(r)] /\ df'[i].runda = Str(r))
          /\ Candidates(df, Column(r)) # {}
                => Len(rng'.calls) =
                      Cardinality({PartitionOf(df, Column(r), i) :
                                      i \in {j \in Eligible(r) :
                                                Cardinality(PartitionOf(df, Column(r), j)) > 1}})
          /\ Candidates(df, Column(r)) = {} => rng' = rng]_vars

\* Round 1 allocated two single-team partitions and a tied one, with one draw.
C10_Witness ==
    /\ pc = "update2"
    /\ stats.round1 = 2
    /\ Len(rng.calls) = 1
    /\ Cardinality(Allocated(df)) = 2

\* --------------------------------------------------------------------- C11
NoCandidate(r) ==
    \A i \in DOMAIN df : df[i].alocare # E \/ df[i][Column(r)] = E

\* C11: a round with no candidate (no unallocated team with a non-empty value
\* in the round's column) leaves the table unchanged in every field, returns
\* the count 0, and the pipeline goes on to the next stage.
C11_EmptyRoundIsNoOp ==
    [][\A r \in 1 .. 3 :
          (pc = RoundStage(r) /\ pc' # pc /\ NoCandidate(r))
              => /\ df' = df
                 /\ stats'[StatKey(r)] = 0
                 /\ pc' = AfterRound(r)
                 /\ outputs' = outputs /\ stderr' = stderr]_vars

\* A run whose round 1 had no candidate (every first preference is empty) has
\* gone through to the end.
C11_Witness ==
    /\ pc = "done"
    /\ \A i \in DOMAIN df : Prefs(i).d1 = E
    /\ stats.round1 = 0

\* --------------------------------------------------------------------- C12
RunsFinished == IF pc \in {"done", "failed"} THEN run ELSE run - 1

\* C12: a run is all-or-nothing for the output: a run that fails (unreadable
\* input, or a stage that raises) reports one diagnostic and writes nothing;
\* the table is written only at the end of a run, with every theme resolved,
\* and every finished run has either written the table or reported a failure.
C12_AllOrNothingOutput ==
    /\ [][outputs' # outputs
            => /\ pc = "write" /\ pc' = "done"
               /\ outputs' = Append(outputs, df)
               /\ Len(df) = Len(input)
               /\ \A i \in DOMAIN df : df[i].tema_proiect # E]_vars
    /\ [][pc' = "failed"
            => /\ outputs' = outputs
               /\ Len(stderr') = Len(stderr) + 1]_vars
    /\ [](Len(outputs) + Len(stderr) = RunsFinished)
    /\ []((~readable \/ NumColumns(input) < 3) => outputs = <<>>)

\* Every run of a readable table without three items in any row has failed,
\* with a diagnostic each and nothing written.
C12_Witness ==
    /\ pc = "failed"
    /\ run = MaxRuns
    /\ readable
    /\ Len(stderr) = MaxRuns
    /\ outputs = <<>>

\* --------------------------------------------------------------------- C13
NewlyAllocated == {i \in DOMAIN df : df[i].alocare = E /\ df'[i].alocare # E}

WithRound(r) == {i \in DOMAIN df : df[i].runda = Str(r)}

\* C13: the count allocate_round returns for round r is the number of teams
\* whose allocation went from unset to set in that call, and at the end it is
\* the number of teams whose round_allocated is r; a team has a round in
\* {1, 2, 3} iff it has an allocated domain, and the three counts add up to
\* the number of allocated teams.
C13_CountsMatchAllocations ==
    /\ [][\A r \in 1 .. 3 :
             RoundStep(r) => stats'[StatKey(r)] = Cardinality(NewlyAllocated)]_vars
    /\ [](pc \in {"themes", "write", "done"} =>
            /\ \A r \in 1 .. 3 : stats[StatKey(r)] = Cardinality(WithRound(r))
            /\ \A i \in DOMAIN df :
                  /\ df[i].runda \in {E, Str(1), Str(2), Str(3)}
                  /\ df[i].runda # E <=> df[i].alocare # E
            /\ stats.round1 + stats.round2 + stats.round3
                  = Cardinality({i \in DOMAIN df : df[i].alocare # E}))

\* A finished run that allocated in each of the three rounds and left no team
\* unallocated.
C13_Witness ==
    /\ pc = "done"
    /\ stats.round1 = 1 /\ stats.round2 = 1 /\ stats.round3 = 1

\* --------------------------------------------------------------------- C14
\* The eligible candidates of round r whose partition has more than one team.
Tied(r) == {i \in Eligible(r) : Cardinality(PartitionOf(df, Column(r), i)) > 1}

\* The draw sequences rng.randint can return in round r on the current table.
PossibleDraws(r) ==
    {draws \in [1 .. Len(EndRng(df, r).calls) -> 0 .. (NumTeams - 1)] :
        \A k \in DOMAIN draws : draws[k] \in randint(0, EndRng(df, r).calls[k])}

\* Team i is the one allocate_round selects under the draws.
SelectedUnder(r, draws, i) ==
    \E k \in DOMAIN ScanResult(df, r, draws).team_indices :
        ScanResult(df, r, draws).team_indices[k] = i

\* C14: for a partition of size n > 1 the index drawn is in 0 .. n-1, the team
\* selected is a team of that partition, and every team of the partition is
\* selected by some draw value.
C14_DrawSelectsWithinPartition ==
    /\ \A key \in DOMAIN mt :
          /\ key[2][Len(key[2])] > 1
          /\ mt[key] \in 0 .. (key[2][Len(key[2])] - 1)
    /\ \A r \in 1 .. 3 : \A i \in WithRound(r) :
          df[i].alocare # E /\ df[i].alocare = df[i][Column(r)]
    /\ \A r \in 1 .. 3 : pc = RoundStage(r) =>
          \A i \in Tied(r) : \E draws \in PossibleDraws(r) : SelectedUnder(r, draws, i)

\* Round 1 drew the last index of a partition of all the teams.
C14_Witness ==
    /\ pc = "update2"
    /\ <<SEED + 1, <<NumTeams>>>> \in DOMAIN mt
    /\ mt[<<SEED + 1, <<NumTeams>>>>] = NumTeams - 1

\* --------------------------------------------------------------------- C15
\* The non-empty deduplicated preferences of team i ranked above its allocated
\* domain; all of them when the team is unallocated.
PassedOver(i) ==
    LET ranks == <<Prefs(i).d1, Prefs(i).d2, Prefs(i).d3>>
    IN  {ranks[k] : k \in {m \in 1 .. 3 : \A n \in 1 .. m : ranks[n] # df[i].alocare}}
            \ {E}

HeldByOther(i, d) ==
    \E j \in DOMAIN df \ {i} : df[j].grupa = df[i].grupa /\ df[j].alocare = d

Partitions(r) == GroupKeys(df, Column(r))

\* C16: in the pipeline no partition of any round has its domain already held
\* in its group when the round starts, so the skip branch is never taken, and
\* the round's count is the number of distinct (group, domain) partitions of
\* its candidates.
C16_SkipBranchNeverTaken ==
    /\ [](\A r \in 1 .. 3 : pc = RoundStage(r) =>
            \A key \in Partitions(r) : ~Holds(df, key[1], key[2]))
    /\ [][\A r \in 1 .. 3 : RoundStep(r) =>
            stats'[StatKey(r)] = Cardinality(Partitions(r))]_vars

\* Round 2 has allocated although a team's second preference was taken in its
\* group in round 1.
C16_Witness ==
    /\ pc = "update3"
    /\ stats.round2 >= 1
    /\ \E i, j \in DOMAIN df :
          /\ df[i].alocare = E
          /\ df[j].grupa = df[i].grupa
          /\ df[j].runda = Str(1)
          /\ df[j].alocare = Prefs(i).d2

\* --------------------------------------------------------------------- C17
\* C17: when the pipeline completes, the theme of every team with an allocated
\* domain is one of the team's own original preference strings and not the
\* manual-assignment marker, and the marker is the theme of exactly the teams
\* with no allocated domain.
C17_AllocatedTeamGetsOwnString ==
    pc = "done" =>
        \A i \in DOMAIN df :
            /\ df[i].alocare # E =>
                  /\ df[i].tema_proiect # MANUAL
                  /\ \E k \in DOMAIN RawItems(input[i].Optiuni) :
                        RawItems(input[i].Optiuni)[k] = df[i].tema_proiect
            /\ df[i].tema_proiect = MANUAL <=> df[i].alocare = E

\* --------------------------------------------------------------------- C18
UpdateStep(r) == pc = (IF r = 2 THEN "update2" ELSE "update3") /\ pc' = RoundStage(r)

\* Row i differs between the two tables in alocare and runda at most.
OnlyAllocationChanged(i) ==
    df'[i] = [df[i] EXCEPT !.alocare = df'[i].alocare, !.runda = df'[i].runda]

\* C18: allocate_round changes only alocare and runda, and only of the teams
\* it selects; update_preferences changes only d2 and d3 in round 2 and only
\* d3 in round 3; every other field of every team is left as it was.
C18_StagesChangeOnlyTheirFields ==
    [][/\ \A r \in 1 .. 3 : RoundStep(r) =>
             /\ DOMAIN df' = DOMAIN df
             /\ \A i \in DOMAIN df :
                   /\ OnlyAllocationChanged(i)
                   /\ i \notin NewlyAllocated => df'[i] = df[i]
       /\ UpdateStep(2) =>
             /\ DOMAIN df' = DOMAIN df
             /\ \A i \in DOMAIN df :
                   df'[i] = [df[i] EXCEPT !.d2 = df'[i].d2, !.d3 = df'[i].d3]
       /\ UpdateStep(3) =>
             /\ DOMAIN df' = DOMAIN df
             /\ \A i \in DOMAIN df : df'[i] = [df[i] EXCEPT !.d3 = df'[i].d3]]_vars

\* Round 2 has allocated a team and the update for round 3 has cleared the
\* third preference of a team that keeps its second.
C18_Witness ==
    /\ pc = "round3"
    /\ \E j \in DOMAIN df : df[j].runda = Str(2)
    /\ \E i \in DOMAIN df :
          /\ Prefs(i).d3 # E
          /\ df[i].d3 = E
          /\ df[i].d2 # E
          /\ df[i].d2 = Prefs(i).d2

====
